---- MODULE Spec2Model ----
(***************************************************************************)
(* ObjectionTester (src/objection_module.py): the command runner           *)
(* _execute_objection_command and the session store behind it.             *)
(*                                                                         *)
(* Python values are modelled as follows.  An optional value is a tuple:   *)
(* None is <<>> and a value x is <<x>>.  Text is a TLA+ string, a list of  *)
(* strings a sequence, a path the sequence of its components.  A report    *)
(* file's text is the sequence of its lines (a captured stream is one      *)
(* element).  The wall clock counts ticks of 1/TicksPerSec second.         *)
(***************************************************************************)
EXTENDS Integers, Sequences, FiniteSets, TLC

\* ---------------------------------------------------------------- bounds
TicksPerSec == 2        \* clock resolution of the model, ticks per second
MaxTicks == 1           \* clock advances (a tick or a second) in one behaviour
MaxCalls == 2           \* invocations of _execute_objection_command in a session
MaxFaultyCalls == 1     \* invocations during which report writes fail
MaxTargetCalls == 1     \* invocations when every target is explored
MaxChecks == 1          \* readiness checks, diagnostics and constructor re-runs

\* ------------------------------------------------------- program constants
TimeoutSecs == 60       \* subprocess.run(..., timeout=60)
ProbeTimeoutSecs == 10  \* subprocess.run(..., timeout=10) of the readiness checks

None == <<>>
Some(x) == <<x>>

\* Python truth value of an optional string / an optional int.
TruthyStr(o) == o /= None /\ o[1] /= ""
TruthyInt(o) == o /= None /\ o[1] /= 0

\* str(x) of an optional int, as an f-string prints it.
PyStr(o) == IF o = None THEN "None" ELSE ToString(o[1])

\* ------------------------------------------------------------ input sets
PackageNames == {None, Some("com.example.app")}
ProcessIds == {None, Some(0), Some(1234)}
DeviceIds == {None, Some("emulator-5554")}
OutputDir == <<"output", "objection">>

VARIABLES
    package_name,        \* self.package_name
    process_id,          \* self.process_id
    device_id,           \* self.device_id
    app_output_dir,      \* self.app_output_dir
    objection_base_cmd,  \* self.objection_base_cmd
    dirs,                \* directories that exist on disk
    files,               \* report files on disk: path |-> lines
    now,                 \* wall clock, in ticks
    budget,              \* what the environment may still do: calls, faults, ticks
    pc,                  \* "idle", "child", "returned", "raised"
    frame,               \* locals of the call in progress / last call
    result,              \* the tuple the last call returned
    raised,              \* the exception the last call let escape, or None
    ncalls,              \* calls of _execute_objection_command so far
    launches,            \* subprocess.run calls made by the current call
    writes,              \* successful report writes, in order
    constructions,       \* runs of __init__: the report files each found on disk
    check,               \* what the last readiness check handed to its caller
    agg,                 \* the aggregate run in progress / last made
    ui                   \* the menu the user is at and what it last showed

vars == <<package_name, process_id, device_id, app_output_dir,
          objection_base_cmd, dirs, files, now, budget, pc, frame, result,
          raised, ncalls, launches, writes, constructions, check, agg, ui>>

session == <<package_name, process_id, device_id, app_output_dir,
             objection_base_cmd, dirs>>

\* ---------------------------------------------------------- session store
categories ==
    <<"security_bypasses", "data_exploration", "runtime_analysis",
      "network_monitoring", "application_info", "dynamic_manipulation",
      "advanced_testing", "quick_tests", "session_logs">>

Range(s) == {s[i] : i \in DOMAIN s}

\* The directory _create_output_structure names for a target.
AppDir(pkg, pid) ==
    IF TruthyStr(pkg) THEN OutputDir \o <<pkg[1]>>
    ELSE IF TruthyInt(pid) THEN OutputDir \o <<"pid_" \o PyStr(pid)>>
    ELSE OutputDir \o <<"unknown_app">>

\* A constructor that makes the session root only and leaves the category
\* directories to their first use.
CreateOutputStructureLazy(pkg, pid, existing) == existing \cup {AppDir(pkg, pid)}

\* mkdir(parents=True, exist_ok=True) of every category directory.
_create_output_structure(pkg, pid, existing) ==
    existing \cup {AppDir(pkg, pid) \o <<c>> : c \in Range(categories)}

\* _build_base_command
_build_base_command(pkg, pid, dev) ==
    <<"objection">>
    \o (IF TruthyStr(dev) THEN <<"-S", dev[1]>> ELSE <<>>)
    \o (IF TruthyStr(pkg) THEN <<"-g", pkg[1]>>
        ELSE IF TruthyInt(pid) THEN <<"-g", PyStr(pid)>>
        ELSE <<>>)

\* ------------------------------------------------------------ formatting
D2(n) == IF n < 10 THEN "0" \o ToString(n) ELSE ToString(n)

\* The clock reading at which sessions start: the last second of the first
\* day, so that the day rolls over within the clock's bound.
StartClock == (24 * 3600 - 1) * TicksPerSec

\* The fields of a clock reading t: second resolution, the ticks within a
\* second are dropped.
Secs(t) == t \div TicksPerSec
DayOfMonth(t) == 1 + Secs(t) \div (24 * 3600)
HMS(t, sep) ==
    LET s == Secs(t) % (24 * 3600)
    IN D2(s \div 3600) \o sep \o D2((s \div 60) % 60) \o sep \o D2(s % 60)

\* A time-only stamp: the date is left out.
strftimeNoDate(t, fmt) == HMS(t, IF fmt = "%Y%m%d_%H%M%S" THEN "" ELSE ":")

\* datetime.strftime with the two formats the module uses.
strftime(t, fmt) ==
    IF fmt = "%Y%m%d_%H%M%S" THEN "197001" \o D2(DayOfMonth(t)) \o "_" \o HMS(t, "")
    ELSE "1970-01-" \o D2(DayOfMonth(t)) \o " " \o HMS(t, ":")

\* str(Path): the components joined by "/".
RECURSIVE PathStr(_)
PathStr(p) ==
    IF Len(p) = 0 THEN "."
    ELSE IF Len(p) = 1 THEN p[1]
    ELSE PathStr(SubSeq(p, 1, Len(p) - 1)) \o "/" \o p[Len(p)]

Eq80 == "================================================================================"
Dash40 == "----------------------------------------"

\* self.package_name or f"PID {self.process_id}" or "Unknown"
TargetText(pkg, pid) ==
    IF TruthyStr(pkg) THEN pkg[1]
    ELSE IF ("PID " \o PyStr(pid)) /= "" THEN "PID " \o PyStr(pid)
    ELSE "Unknown"

\* self.device_id or "Default"
DeviceText(dev) == IF TruthyStr(dev) THEN dev[1] ELSE "Default"

\* A _format_output that stamps the header with the time of formatting, as
\* the closing banner is.
FormatOutputStampsNow(command, description, timestamp, stdout, stderr, returncode, clock) ==
    <<"", Eq80, "OBJECTION TESTING OUTPUT", Eq80,
      "Timestamp: " \o strftime(clock, "%Y%m%d_%H%M%S"),
      "Target: " \o TargetText(package_name, process_id),
      "Device: " \o DeviceText(device_id),
      "Command: " \o command,
      "Description: " \o description,
      "Return Code: " \o ToString(returncode),
      Eq80, "">>
    \o (IF stdout /= "" THEN <<"STDOUT:", Dash40, stdout, "">> ELSE <<>>)
    \o (IF stderr /= "" THEN <<"STDERR:", Dash40, stderr, "">> ELSE <<>>)
    \o <<Eq80, "Test completed at: " \o strftime(clock, "%Y-%m-%d %H:%M:%S"), Eq80>>

\* A _format_output that prints both sections whatever they hold.
FormatOutputAlwaysSections(command, description, timestamp, stdout, stderr, returncode, clock) ==
    <<"", Eq80, "OBJECTION TESTING OUTPUT", Eq80,
      "Timestamp: " \o timestamp,
      "Target: " \o TargetText(package_name, process_id),
      "Device: " \o DeviceText(device_id),
      "Command: " \o command,
      "Description: " \o description,
      "Return Code: " \o ToString(returncode),
      Eq80, "">>
    \o <<"STDOUT:", Dash40, stdout, "">>
    \o <<"STDERR:", Dash40, stderr, "">>
    \o <<Eq80, "Test completed at: " \o strftime(clock, "%Y-%m-%d %H:%M:%S"), Eq80>>

\* _format_output: the report text, as lines.  clock is the reading of
\* datetime.now() taken for the closing banner.
_format_output(command, description, timestamp, stdout, stderr, returncode, clock) ==
    <<"", Eq80, "OBJECTION TESTING OUTPUT", Eq80,
      "Timestamp: " \o timestamp,
      "Target: " \o TargetText(package_name, process_id),
      "Device: " \o DeviceText(device_id),
      "Command: " \o command,
      "Description: " \o description,
      "Return Code: " \o ToString(returncode),
      Eq80, "">>
    \o (IF stdout /= "" THEN <<"STDOUT:", Dash40, stdout, "">> ELSE <<>>)
    \o (IF stderr /= "" THEN <<"STDERR:", Dash40, stderr, "">> ELSE <<>>)
    \o <<Eq80, "Test completed at: " \o strftime(clock, "%Y-%m-%d %H:%M:%S"), Eq80>>

\* ------------------------------------------------------------ file system
WriteOutcomes == {"ok", "open_fails", "write_fails"}

\* str(e) of the OSError a failed open() / f.write() raises.
OSErrorText(w, path) ==
    IF w = "open_fails" THEN "[Errno 13] Permission denied: '" \o PathStr(path) \o "'"
    ELSE "[Errno 28] No space left on device"

\* with open(path, 'w') as f: f.write(content).  A successful write creates
\* or replaces the file; a write that fails after open() leaves it truncated;
\* a failed open() leaves the disk as it was.
WriteFile(fs, path, content, w) ==
    IF w = "open_fails" THEN fs
    ELSE [p \in DOMAIN fs \cup {path} |->
            IF p = path THEN (IF w = "ok" THEN content ELSE <<>>) ELSE fs[p]]

\* ---------------------------------------------------------- command runner
\* The tests the callers pass: command, category, test_name, description.
Tests ==
    { [command |-> "android root disable", category |-> "security_bypasses",
       test_name |-> "root_detection_bypass",
       description |-> "Disable root detection mechanisms in the application"],
      [command |-> "android filesystem readable", category |-> "data_exploration",
       test_name |-> "filesystem_scan",
       description |-> "Scan for readable and writable directories in the application"] }

\* What a child that runs to completion can hand back (CompletedProcess); a
\* negative return code is a child killed by that signal.
ChildResults ==
    { [returncode |-> 0, stdout |-> "SSL pinning disabled", stderr |-> ""],
      [returncode |-> 1, stdout |-> "", stderr |-> "unable to connect to frida-server"],
      [returncode |-> -9, stdout |-> "partial output", stderr |-> "killed"] }

\* str(e) of the exception subprocess.run raises when it cannot launch.
FaultTexts == { "[Errno 2] No such file or directory: 'objection'" }

TimeoutMsg == "Command timed out after " \o ToString(TimeoutSecs) \o " seconds"
ErrorPrefix == "Error executing command: "

NoFrame ==
    [command |-> "", category |-> "", test_name |-> "", description |-> "",
     timestamp |-> "", output_file |-> <<>>, full_cmd |-> <<>>,
     started |-> 0, outcome |-> "none", returncode |-> 0,
     stdout |-> "", stderr |-> "", write_failed |-> FALSE]

NoResult == [success |-> FALSE, output_file |-> "", stdout |-> "", stderr |-> ""]

\* What a probe hands back when none is made.
NoProbe == [kind |-> "none", returncode |-> 0, stdout |-> <<>>]

\* No readiness check made yet.  cmd and probe are the command the check
\* ran and what came of it, reports the number of report files on disk when
\* the check ended.
NoCheck ==
    [name |-> "none", ok |-> FALSE, message |-> "", raised |-> None,
     cmd |-> <<>>, probe |-> NoProbe, reports |-> 0]

\* No aggregate run started: its name, the (name, success, output_file)
\* entries collected so far, the calls made before it began, how it ended and
\* the summary printed for it.
NoAgg ==
    [name |-> "none", status |-> "none", results |-> <<>>, base |-> 0,
     error |-> None, summary |-> <<>>]

\* The user interface when the tester has just been built: at is where the
\* user is ("entry" before the checks of main.py, "menu" in the Objection
\* menu of main.py, "module" in the menu handlers of the module, "main" back
\* in the main menu); available, verified, running and answer are what the
\* entry checks found and what the user answered; indicator and path are
\* what the menu by printed for call number call.
NoUi ==
    [at |-> "entry", available |-> FALSE, verified |-> FALSE,
     running |-> FALSE, answer |-> "", call |-> 0, by |-> "none",
     indicator |-> FALSE, path |-> ""]

\* ObjectionTester.__init__ for the target (pkg, pid, dev), on an empty disk.
Construct(pkg, pid, dev) ==
    /\ package_name = pkg
    /\ process_id = pid
    /\ device_id = dev
    /\ app_output_dir = AppDir(pkg, pid)
    /\ dirs = _create_output_structure(pkg, pid, {})
    /\ objection_base_cmd = _build_base_command(pkg, pid, dev)
    /\ files = <<>>
    /\ now = StartClock
    /\ pc = "idle"
    /\ frame = NoFrame
    /\ result = NoResult
    /\ raised = None
    /\ ncalls = 0
    /\ launches = 0
    /\ writes = <<>>
    /\ constructions = <<{}>>
    /\ check = NoCheck
    /\ agg = NoAgg
    /\ ui = NoUi

\* The targets of the sessions whose sequences of invocations are explored: a
\* package on the default device, a process on a named device.
SessionTargets ==
    { <<Some("com.example.app"), None, None>>,
      <<None, Some(1234), Some("emulator-5554")>> }

\* A session on one of SessionTargets, with MaxCalls invocations ahead.
Init ==
    /\ \E tg \in SessionTargets : Construct(tg[1], tg[2], tg[3])
    /\ budget = [calls |-> MaxCalls, faults |-> MaxFaultyCalls, ticks |-> MaxTicks]

\* A session on any target the constructor takes, with MaxTargetCalls
\* invocations ahead.
InitTargets ==
    /\ \E pkg \in PackageNames, pid \in ProcessIds, dev \in DeviceIds :
          Construct(pkg, pid, dev)
    /\ budget = [calls |-> MaxTargetCalls, faults |-> MaxFaultyCalls,
                 ticks |-> MaxTicks]

\* The wall clock advances by d ticks; a child in flight is cut off at the
\* bound, so no advance takes it past TimeoutSecs.
Tick(d) ==
    /\ budget.ticks > 0
    /\ pc = "child" => now + d - frame.started < TimeoutSecs * TicksPerSec
    /\ now' = now + d
    /\ budget' = [budget EXCEPT !.ticks = @ - 1]
    /\ UNCHANGED <<session, files, pc, frame, result, raised, ncalls,
                   launches, writes, constructions, check, agg, ui>>

\* One report write by the call in progress, on the disk fs and with outcome
\* w: the disk after it, and the log of the writes that succeeded.
Persist(fs, content, w, kind) ==
    /\ files' = WriteFile(fs, frame.output_file, content, w)
    /\ writes' = IF w = "ok"
                 THEN Append(writes, [call |-> ncalls, path |-> frame.output_file,
                                      kind |-> kind, content |-> content])
                 ELSE writes

\* The environment lets the writes of the call in progress fail (faulty) or
\* not.
Disk(faulty) ==
    IF faulty
    THEN budget.faults > 0 /\ budget' = [budget EXCEPT !.faults = @ - 1]
    ELSE UNCHANGED budget

\* An invocation that builds the full command by extending the session's
\* base command in place.
ExecuteExtendsBase(t) ==
    /\ pc /= "child"
    /\ budget.calls > 0
    /\ budget' = [budget EXCEPT !.calls = @ - 1]
    /\ objection_base_cmd' = objection_base_cmd \o <<"run", t.command>>
    /\ LET timestamp == strftime(now, "%Y%m%d_%H%M%S")
           output_file == app_output_dir
                          \o <<t.category, t.test_name \o "_" \o timestamp \o ".txt">>
       IN frame' = [command |-> t.command, category |-> t.category,
                    test_name |-> t.test_name, description |-> t.description,
                    timestamp |-> timestamp, output_file |-> output_file,
                    full_cmd |-> objection_base_cmd',
                    started |-> now, outcome |-> "running", returncode |-> 0,
                    stdout |-> "", stderr |-> "", write_failed |-> FALSE]
    /\ pc' = "child"
    /\ ncalls' = ncalls + 1
    /\ launches' = 1
    /\ result' = NoResult
    /\ raised' = None
    /\ UNCHANGED <<package_name, process_id, device_id, app_output_dir, dirs,
                   files, now, writes, constructions, check, agg, ui>>

\* _execute_objection_command, lines 96-112: the timestamp, the file name and
\* the full command are fixed, then subprocess.run starts the child.
Execute(t) ==
    /\ pc /= "child"
    /\ budget.calls > 0
    /\ budget' = [budget EXCEPT !.calls = @ - 1]
    /\ LET timestamp == strftime(now, "%Y%m%d_%H%M%S")
           output_file == app_output_dir
                          \o <<t.category, t.test_name \o "_" \o timestamp \o ".txt">>
       IN frame' = [command |-> t.command, category |-> t.category,
                    test_name |-> t.test_name, description |-> t.description,
                    timestamp |-> timestamp, output_file |-> output_file,
                    full_cmd |-> objection_base_cmd \o <<"run", t.command>>,
                    started |-> now, outcome |-> "running", returncode |-> 0,
                    stdout |-> "", stderr |-> "", write_failed |-> FALSE]
    /\ pc' = "child"
    /\ ncalls' = ncalls + 1
    /\ launches' = 1
    /\ result' = NoResult
    /\ raised' = None
    /\ UNCHANGED <<session, files, now, writes, constructions, check, agg, ui>>

\* The except blocks' common shape (lines 132-145 and 148-161): format the
\* failure record with the block's return code, write it on the disk fs,
\* return the failure tuple.  An error of this write is in no try block: it
\* leaves the call.
ExceptBody(fs, error_msg, returncode, w, kind, f) ==
    /\ Persist(fs, _format_output(f.command, f.description, f.timestamp, "",
                                  error_msg, returncode, now'),
               w, kind)
    /\ IF w = "ok"
       THEN /\ pc' = "returned"
            /\ result' = [success |-> FALSE, output_file |-> PathStr(f.output_file),
                          stdout |-> "", stderr |-> error_msg]
            /\ raised' = None
            /\ frame' = f
       ELSE /\ pc' = "raised"
            /\ result' = NoResult
            /\ raised' = Some(OSErrorText(w, f.output_file))
            /\ frame' = [f EXCEPT !.write_failed = TRUE]

\* A timeout block that returns the failure tuple without writing the record.
TimeoutBlockNoRecord(fs, w, f) ==
    /\ UNCHANGED <<files, writes>>
    /\ pc' = "returned"
    /\ result' = [success |-> FALSE, output_file |-> PathStr(f.output_file),
                  stdout |-> "", stderr |-> TimeoutMsg]
    /\ raised' = None
    /\ frame' = f

\* A timeout block that records return code 0.
TimeoutBlockZeroCode(fs, w, f) == ExceptBody(fs, TimeoutMsg, 0, w, "timeout", f)

\* except subprocess.TimeoutExpired, lines 131-145.
TimeoutBlock(fs, w, f) == ExceptBody(fs, TimeoutMsg, -1, w, "timeout", f)

\* No except Exception block: the exception leaves the call.
ExceptionBlockReraise(fs, e, w, f) ==
    /\ files' = fs
    /\ UNCHANGED writes
    /\ pc' = "raised"
    /\ result' = NoResult
    /\ raised' = Some(e)
    /\ frame' = f

\* An except Exception block with a sentinel of its own.
ExceptionBlockOwnCode(fs, e, w, f) == ExceptBody(fs, ErrorPrefix \o e, -2, w, "fault", f)

\* except Exception as e, lines 147-161.
ExceptionBlock(fs, e, w, f) == ExceptBody(fs, ErrorPrefix \o e, -1, w, "fault", f)

\* A normal path that records the child's stdout only and returns the
\* streams to the caller as captured.
ChildExitDropsStderr(r) ==
    /\ pc = "child"
    /\ UNCHANGED <<now, budget>>
    /\ Persist(files,
               _format_output(frame.command, frame.description, frame.timestamp,
                              r.stdout, "", r.returncode, now),
               "ok", "completed")
    /\ pc' = "returned"
    /\ result' = [success |-> r.returncode = 0,
                  output_file |-> PathStr(frame.output_file),
                  stdout |-> r.stdout, stderr |-> r.stderr]
    /\ raised' = None
    /\ frame' = [frame EXCEPT !.outcome = "completed", !.returncode = r.returncode,
                              !.stdout = r.stdout, !.stderr = r.stderr]
    /\ UNCHANGED <<session, ncalls, launches, constructions, check, agg, ui>>

\* The child runs to completion with result r and the report is written:
\* lines 114-129.
ChildExit(r) ==
    /\ pc = "child"
    /\ UNCHANGED <<now, budget>>
    /\ Persist(files,
               _format_output(frame.command, frame.description, frame.timestamp,
                              r.stdout, r.stderr, r.returncode, now),
               "ok", "completed")
    /\ pc' = "returned"
    /\ result' = [success |-> r.returncode = 0,
                  output_file |-> PathStr(frame.output_file),
                  stdout |-> r.stdout, stderr |-> r.stderr]
    /\ raised' = None
    /\ frame' = [frame EXCEPT !.outcome = "completed", !.returncode = r.returncode,
                              !.stdout = r.stdout, !.stderr = r.stderr]
    /\ UNCHANGED <<session, ncalls, launches, constructions, check, agg, ui>>

\* The child runs to completion but the write of lines 125-126 fails with
\* outcome w1: the OSError is raised inside the try block, so the except
\* Exception block of lines 147-161 takes it and writes again (outcome w2).
ChildExitWriteFails(r, w1, w2) ==
    /\ pc = "child"
    /\ w1 /= "ok"
    /\ Disk(TRUE)
    /\ UNCHANGED now
    /\ ExceptionBlock(WriteFile(files, frame.output_file, <<>>, w1),
                      OSErrorText(w1, frame.output_file), w2,
                      [frame EXCEPT !.outcome = "completed",
                                    !.returncode = r.returncode,
                                    !.stdout = r.stdout, !.stderr = r.stderr,
                                    !.write_failed = TRUE])
    /\ UNCHANGED <<session, ncalls, launches, constructions, check, agg, ui>>

\* A timeout handler that starts the command once more.
ChildTimeoutRetry(w) ==
    /\ pc = "child"
    /\ launches' = launches + 1
    /\ now' = frame.started + TimeoutSecs * TicksPerSec
    /\ UNCHANGED <<session, files, budget, pc, frame, result, raised, ncalls,
                   writes, constructions, check, agg, ui>>

\* subprocess.run kills the child at the bound and raises TimeoutExpired.
ChildTimeout(w) ==
    /\ pc = "child"
    /\ Disk(w /= "ok")
    /\ now' = frame.started + TimeoutSecs * TicksPerSec
    /\ TimeoutBlock(files, w, [frame EXCEPT !.outcome = "timeout"])
    /\ UNCHANGED <<session, ncalls, launches, constructions, check, agg, ui>>

\* subprocess.run raises another exception (the launch fails) with text e.
ChildFault(e, w) ==
    /\ pc = "child"
    /\ Disk(w /= "ok")
    /\ UNCHANGED now
    /\ ExceptionBlock(files, e, w, [frame EXCEPT !.outcome = "fault"])
    /\ UNCHANGED <<session, ncalls, launches, constructions, check, agg, ui>>

\* -------------------------------------------------------------------- text
\* The output of a probe is the sequence of its characters.
RECURSIVE Join(_)
Join(cs) == IF cs = <<>> THEN "" ELSE cs[1] \o Join(Tail(cs))

\* pat in text
Contains(text, pat) ==
    \E i \in 1..(Len(text) - Len(pat) + 1) : SubSeq(text, i, i + Len(pat) - 1) = pat

Whitespace == {" ", "\t", "\n", "\r"}

\* text.strip()
RECURSIVE Strip(_)
Strip(text) ==
    IF text = <<>> THEN <<>>
    ELSE IF text[1] \in Whitespace THEN Strip(Tail(text))
    ELSE IF text[Len(text)] \in Whitespace THEN Strip(SubSeq(text, 1, Len(text) - 1))
    ELSE text

\* text.split(sep) for a separator of one character.
RECURSIVE Split(_, _)
Split(text, sep) ==
    IF \A i \in DOMAIN text : text[i] /= sep THEN <<text>>
    ELSE LET k == CHOOSE i \in DOMAIN text :
                     text[i] = sep /\ \A j \in 1..(i - 1) : text[j] /= sep
         IN <<SubSeq(text, 1, k - 1)>> \o Split(SubSeq(text, k + 1, Len(text)), sep)

\* str(n) of an int, as characters.
RECURSIVE Digits(_)
Digits(n) ==
    IF n < 0 THEN <<"-">> \o Digits(-n)
    ELSE IF n < 10 THEN <<ToString(n)>>
    ELSE Digits(n \div 10) \o <<ToString(n % 10)>>

\* str(list) of a list of strings.
RECURSIVE ListItems(_)
ListItems(l) ==
    IF l = <<>> THEN ""
    ELSE "'" \o l[1] \o "'" \o (IF Len(l) > 1 THEN ", " ELSE "") \o ListItems(Tail(l))
ListRepr(l) == "[" \o ListItems(l) \o "]"

\* `ps | grep frida-server` with the server running
FridaListing ==
    <<"r", "o", "o", "t", " ", "4", "3", "2", "1", " ", "f", "r", "i", "d",
      "a", "-", "s", "e", "r", "v", "e", "r", "\n">>

\* `adb devices` with the emulator attached
OneDevice ==
    <<"L", "i", "s", "t", " ", "o", "f", " ", "d", "e", "v", "i", "c", "e",
      "s", " ", "a", "t", "t", "a", "c", "h", "e", "d", "\n", "e", "m", "u",
      "l", "a", "t", "o", "r", "-", "5", "5", "5", "4", "\t", "d", "e", "v",
      "i", "c", "e", "\n", "\n">>

\* `adb devices` with another device attached
OtherDevice ==
    <<"L", "i", "s", "t", " ", "o", "f", " ", "d", "e", "v", "i", "c", "e",
      "s", " ", "a", "t", "t", "a", "c", "h", "e", "d", "\n", "R", "5", "8",
      "M", "\t", "d", "e", "v", "i", "c", "e", "\n", "\n">>

\* `adb devices` with a device that is not authorized
Unauthorized ==
    <<"L", "i", "s", "t", " ", "o", "f", " ", "d", "e", "v", "i", "c", "e",
      "s", " ", "a", "t", "t", "a", "c", "h", "e", "d", "\n", "R", "5", "8",
      "M", "\t", "u", "n", "a", "u", "t", "h", "o", "r", "i", "z", "e", "d",
      "\n", "\n">>

\* `pidof <package>` of a running package
PidofLine ==
    <<"4", "3", "2", "1", "\n">>

\* `ps -p 1234` of a running process
PsRow ==
    <<"P", "I", "D", " ", "N", "A", "M", "E", "\n", "1", "2", "3", "4", " ",
      "a", "p", "p", "\n">>

\* `ps -p <pid>` when no such process runs
PsHeader ==
    <<"P", "I", "D", " ", "N", "A", "M", "E", "\n">>

\* a process table row of another process, 11234
PsOtherRow ==
    <<"P", "I", "D", " ", "N", "A", "M", "E", "\n", "1", "1", "2", "3", "4",
      " ", "a", "p", "p", "\n">>

TabDevice == <<"\t", "d", "e", "v", "i", "c", "e">>
FridaServer == <<"f", "r", "i", "d", "a", "-", "s", "e", "r", "v", "e", "r">>

\* -------------------------------------------------------- readiness checks
\* What subprocess.run(cmd, capture_output=True, text=True, timeout=10) can
\* come to: the child completes, the bound expires, the launch fails.
Completed(rc, out) == [kind |-> "completed", returncode |-> rc, stdout |-> out]
TimedOut == [kind |-> "timeout", returncode |-> 0, stdout |-> <<>>]
LaunchFault == [kind |-> "fault", returncode |-> 0, stdout |-> <<>>]

\* The outcome of a function body: it returns (ok, message) or raises an
\* exception whose str() is text.
Return(ok, message) == [raises |-> FALSE, ok |-> ok, message |-> message, text |-> ""]
Raise(text) == [raises |-> TRUE, ok |-> FALSE, message |-> "", text |-> text]

\* subprocess.run with probe outcome o: the CompletedProcess, or the
\* exception raised.
SubprocessRun(cmd, o) ==
    IF o.kind = "timeout"
    THEN Raise("Command '" \o ListRepr(cmd) \o "' timed out after "
               \o ToString(ProbeTimeoutSecs) \o " seconds")
    ELSE IF o.kind = "fault"
    THEN Raise("[Errno 2] No such file or directory: '" \o cmd[1] \o "'")
    ELSE [raises |-> FALSE, returncode |-> o.returncode, stdout |-> o.stdout]

\* A check with no except clause: what the body raises leaves the check.
NoExcept(body, prefix) == body

\* try: body / except Exception as e: return False, f"<prefix>{str(e)}"
TryExcept(body, prefix) ==
    IF body.raises THEN Return(FALSE, prefix \o body.text) ELSE body

\* ["adb"], -s <device_id> if one is set, then args.
AdbCmd(args) ==
    <<"adb">> \o (IF TruthyStr(device_id) THEN <<"-s", device_id[1]>> ELSE <<>>) \o args

\* check_objection_available, lines 191-202.
ObjectionCmd == <<"objection", "version">>
check_objection_available(o) ==
    TryExcept(
        LET res == SubprocessRun(ObjectionCmd, o)
        IN IF res.raises THEN res
           ELSE IF res.returncode /= 0
           THEN Return(FALSE, "Objection not found or not working")
           ELSE Return(TRUE, "Objection is installed and available"),
        "Error checking Objection: ")

\* check_frida_server_status, lines 204-220.
FridaCmd == AdbCmd(<<"shell", "ps | grep frida-server">>)
check_frida_server_status(o) ==
    TryExcept(
        LET res == SubprocessRun(FridaCmd, o)
        IN IF res.raises THEN res
           ELSE IF res.returncode = 0 /\ Contains(res.stdout, FridaServer)
           THEN Return(TRUE, "Frida server is running on device")
           ELSE Return(FALSE, "Frida server is not running on device. Please start Frida server first."),
        "Error checking Frida server: ")

\* The device ids `adb devices` lists: the first field of every line that
\* holds "\tdevice".
DevicesOf(stdout) ==
    LET lines == SelectSeq(Split(stdout, "\n"), LAMBDA line : Contains(line, TabDevice))
    IN [i \in 1..Len(lines) |-> Join(Split(lines[i], "\t")[1])]

\* check_device_connection, lines 222-245.
DevicesCmd == <<"adb", "devices">>

\* A device check that does not look for the session's device among those
\* attached.
CheckDeviceConnectionAnyDevice(o) ==
    TryExcept(
        LET res == SubprocessRun(DevicesCmd, o)
        IN IF res.raises THEN res
           ELSE IF res.returncode /= 0
           THEN Return(FALSE, "ADB not working or no devices connected")
           ELSE LET devices == DevicesOf(res.stdout)
                IN IF devices = <<>>
                   THEN Return(FALSE, "No Android devices connected")
                   ELSE Return(TRUE, "Device connection OK. Available devices: "
                                     \o ListRepr(devices)),
        "Error checking device connection: ")

check_device_connection(o) ==
    TryExcept(
        LET res == SubprocessRun(DevicesCmd, o)
        IN IF res.raises THEN res
           ELSE IF res.returncode /= 0
           THEN Return(FALSE, "ADB not working or no devices connected")
           ELSE LET devices == DevicesOf(res.stdout)
                IN IF devices = <<>>
                   THEN Return(FALSE, "No Android devices connected")
                   ELSE IF TruthyStr(device_id) /\ device_id[1] \notin Range(devices)
                   THEN Return(FALSE, "Specified device " \o device_id[1]
                                      \o " not found. Available devices: "
                                      \o ListRepr(devices))
                   ELSE Return(TRUE, "Device connection OK. Available devices: "
                                     \o ListRepr(devices)),
        "Error checking device connection: ")

\* The probe verify_target_running runs: pidof for a package, ps -p for a
\* process id, none when it has no target.
VerifyCmd ==
    IF TruthyStr(package_name) THEN AdbCmd(<<"shell", "pidof", package_name[1]>>)
    ELSE IF TruthyInt(process_id) THEN AdbCmd(<<"shell", "ps", "-p", PyStr(process_id)>>)
    ELSE <<>>

\* A verify_target_running that looks at the output only, not at the
\* return code of the probe.
VerifyTargetRunningAnyCode(o) ==
    IF ~TruthyStr(package_name) /\ ~TruthyInt(process_id)
    THEN Return(FALSE, "No target package or PID specified")
    ELSE TryExcept(
        LET res == SubprocessRun(VerifyCmd, o)
        IN IF res.raises THEN res
           ELSE IF TruthyStr(package_name)
           THEN IF Strip(res.stdout) /= <<>>
                THEN Return(TRUE, "Package " \o package_name[1] \o " is running (PID: "
                                  \o Join(Strip(res.stdout)) \o ")")
                ELSE Return(FALSE, "Package " \o package_name[1] \o " is not running")
           ELSE IF Contains(res.stdout, Digits(process_id[1]))
                THEN Return(TRUE, "Process " \o PyStr(process_id) \o " is running")
                ELSE Return(FALSE, "Process " \o PyStr(process_id) \o " is not running"),
        "Error verifying target: ")

\* verify_target_running, lines 247-279.
verify_target_running(o) ==
    IF ~TruthyStr(package_name) /\ ~TruthyInt(process_id)
    THEN Return(FALSE, "No target package or PID specified")
    ELSE TryExcept(
        LET res == SubprocessRun(VerifyCmd, o)
        IN IF res.raises THEN res
           ELSE IF TruthyStr(package_name)
           THEN IF res.returncode = 0 /\ Strip(res.stdout) /= <<>>
                THEN Return(TRUE, "Package " \o package_name[1] \o " is running (PID: "
                                  \o Join(Strip(res.stdout)) \o ")")
                ELSE Return(FALSE, "Package " \o package_name[1] \o " is not running")
           ELSE IF res.returncode = 0 /\ Contains(res.stdout, Digits(process_id[1]))
                THEN Return(TRUE, "Process " \o PyStr(process_id) \o " is running")
                ELSE Return(FALSE, "Process " \o PyStr(process_id) \o " is not running"),
        "Error verifying target: ")

\* run_system_diagnostics, lines 281-353: the four checks in turn, the target
\* check only with a target; app_output_dir.exists() raises nothing, so
\* output_ok is true; the value returned is all_ok.
run_system_diagnostics(o1, o2, o3, o4) ==
    LET objection == check_objection_available(o1)
        device == check_device_connection(o2)
        frida == check_frida_server_status(o3)
        target == IF TruthyStr(package_name) \/ TruthyInt(process_id)
                  THEN verify_target_running(o4)
                  ELSE Return(FALSE, "")
        output_ok == TRUE
    IN IF objection.raises THEN objection
       ELSE IF device.raises THEN device
       ELSE IF frida.raises THEN frida
       ELSE IF target.raises THEN target
       ELSE Return(objection.ok /\ device.ok /\ frida.ok /\ target.ok /\ output_ok, "")

\* The probe outcomes explored for each check.
VersionProbes == {Completed(0, <<>>), Completed(1, <<>>), TimedOut, LaunchFault}
FridaProbes == {Completed(0, FridaListing), Completed(1, <<>>), TimedOut, LaunchFault}
DevicesProbes ==
    {Completed(0, OneDevice), Completed(0, OtherDevice), Completed(0, Unauthorized),
     Completed(1, <<>>), LaunchFault}
TargetProbes ==
    {Completed(0, PidofLine), Completed(0, PsRow), Completed(0, PsOtherRow),
     Completed(0, <<>>), Completed(0, <<"\n">>), Completed(1, PsHeader),
     Completed(1, PsRow), TimedOut, LaunchFault}

\* A readiness check that leaves a record of itself among the session logs.
ReadinessCheckLogged(name, cmd, o, r) ==
    /\ pc /= "child"
    /\ budget.checks > 0
    /\ budget' = [budget EXCEPT !.checks = @ - 1]
    /\ files' = WriteFile(files, app_output_dir \o <<"session_logs", name \o ".txt">>,
                          <<r.message>>, "ok")
    /\ check' = [name |-> name, ok |-> r.ok, message |-> r.message,
                 raised |-> IF r.raises THEN Some(r.text) ELSE None,
                 cmd |-> cmd, probe |-> o, reports |-> Cardinality(DOMAIN files)]
    /\ UNCHANGED <<session, now, pc, frame, result, raised, ncalls,
                   launches, writes, constructions, agg, ui>>

\* A readiness check is called between invocations and hands r to its
\* caller; cmd is the probe it ran and o what came of the probe.
ReadinessCheck(name, cmd, o, r) ==
    /\ pc /= "child"
    /\ budget.checks > 0
    /\ budget' = [budget EXCEPT !.checks = @ - 1]
    /\ check' = [name |-> name, ok |-> r.ok, message |-> r.message,
                 raised |-> IF r.raises THEN Some(r.text) ELSE None,
                 cmd |-> cmd, probe |-> o, reports |-> Cardinality(DOMAIN files)]
    /\ UNCHANGED <<session, files, now, pc, frame, result, raised, ncalls,
                   launches, writes, constructions, agg, ui>>

\* ------------------------------------------------------ re-initialization
\* A constructor that starts from a clean tree: the reports found are removed.
ReinitFreshTree ==
    /\ pc /= "child"
    /\ budget.checks > 0
    /\ budget' = [budget EXCEPT !.checks = @ - 1]
    /\ app_output_dir' = AppDir(package_name, process_id)
    /\ dirs' = _create_output_structure(package_name, process_id, {})
    /\ objection_base_cmd' = _build_base_command(package_name, process_id, device_id)
    /\ constructions' = Append(constructions, DOMAIN files)
    /\ files' = <<>>
    /\ UNCHANGED <<package_name, process_id, device_id, now, pc, frame,
                   result, raised, ncalls, launches, writes, check, agg, ui>>

\* ObjectionTester.__init__ run again for the target of the session (main.py
\* builds a new ObjectionTester each time the suite is entered), on the disk
\* as the earlier invocations left it.
Reinit ==
    /\ pc /= "child"
    /\ budget.checks > 0
    /\ budget' = [budget EXCEPT !.checks = @ - 1]
    /\ app_output_dir' = AppDir(package_name, process_id)
    /\ dirs' = _create_output_structure(package_name, process_id, dirs)
    /\ objection_base_cmd' = _build_base_command(package_name, process_id, device_id)
    /\ constructions' = Append(constructions, DOMAIN files)
    /\ UNCHANGED <<package_name, process_id, device_id, files, now, pc, frame,
                   result, raised, ncalls, launches, writes, check, agg, ui>>

\* --------------------------------------------------------- aggregate runs
\* The test wrappers the aggregates call, each with the command, category,
\* test name and description it passes to _execute_objection_command.
run_root_detection_bypass ==
    [command |-> "android root disable", category |-> "security_bypasses",
     test_name |-> "root_detection_bypass",
     description |-> "Disable root detection mechanisms in the application"]
run_ssl_pinning_bypass ==
    [command |-> "android sslpinning disable", category |-> "security_bypasses",
     test_name |-> "ssl_pinning_bypass",
     description |-> "Disable SSL certificate pinning to allow traffic interception"]
run_anti_debugging_bypass ==
    [command |-> "android hooking disable", category |-> "security_bypasses",
     test_name |-> "anti_debugging_bypass",
     description |-> "Disable anti-debugging protection mechanisms"]
run_biometric_bypass ==
    [command |-> "android biometrics disable", category |-> "security_bypasses",
     test_name |-> "biometric_bypass",
     description |-> "Bypass fingerprint and face authentication"]
run_filesystem_scan ==
    [command |-> "android filesystem readable", category |-> "data_exploration",
     test_name |-> "filesystem_scan",
     description |-> "Scan for readable and writable directories in the application"]
run_database_analysis ==
    [command |-> "sqlite list", category |-> "data_exploration",
     test_name |-> "database_analysis",
     description |-> "List and analyze SQLite databases used by the application"]
run_shared_preferences_scan ==
    [command |-> "android preferences list", category |-> "data_exploration",
     test_name |-> "shared_preferences_scan",
     description |-> "List all shared preference files and their contents"]
run_keystore_analysis ==
    [command |-> "android keystore list", category |-> "data_exploration",
     test_name |-> "keystore_analysis",
     description |-> "Analyze Android keystore entries and certificates"]
run_activities_enumeration ==
    [command |-> "android activities list", category |-> "application_info",
     test_name |-> "activities_enumeration",
     description |-> "List all application activities and their properties"]
run_permissions_analysis ==
    [command |-> "android permissions list", category |-> "application_info",
     test_name |-> "permissions_analysis",
     description |-> "Analyze application permissions and their usage"]

\* run_all_security_bypasses, lines 396-401: the (name, func) list.
bypasses ==
    << <<"Root Detection", run_root_detection_bypass>>,
       <<"SSL Pinning", run_ssl_pinning_bypass>>,
       <<"Anti-Debugging", run_anti_debugging_bypass>>,
       <<"Biometric Auth", run_biometric_bypass>> >>

\* run_basic_security_assessment, lines 563-570: the (name, func) list.
basic_tests ==
    << <<"Environment Info",
         [command |-> "env", category |-> "quick_tests",
          test_name |-> "environment_info",
          description |-> "Get environment information"]>>,
       <<"Root Status",
         [command |-> "android root status", category |-> "quick_tests",
          test_name |-> "root_status", description |-> "Check root status"]>>,
       <<"SSL Pinning Status",
         [command |-> "android sslpinning list", category |-> "quick_tests",
          test_name |-> "ssl_pinning_status",
          description |-> "Check SSL pinning implementation"]>>,
       <<"Activities", run_activities_enumeration>>,
       <<"Permissions", run_permissions_analysis>>,
       <<"Readable Directories", run_filesystem_scan>> >>

\* run_data_leakage_check, lines 590-595: the (name, func) list.
leakage_tests ==
    << <<"Shared Preferences", run_shared_preferences_scan>>,
       <<"Database Analysis", run_database_analysis>>,
       <<"Filesystem Scan", run_filesystem_scan>>,
       <<"Keystore Analysis", run_keystore_analysis>> >>

\* The three aggregates: the list each walks, and whether its loop body is
\* in a try block with except Exception.
Aggregates ==
    [run_all_security_bypasses |-> [tests |-> bypasses, catches |-> FALSE],
     run_basic_security_assessment |-> [tests |-> basic_tests, catches |-> TRUE],
     run_data_leakage_check |-> [tests |-> leakage_tests, catches |-> FALSE]]

AggregateNames == DOMAIN Aggregates

\* The list of the aggregate in progress.
AggTests == Aggregates[agg.name].tests

\* An aggregate is called between invocations: results = [].
AggStart(a) ==
    /\ pc /= "child"
    /\ agg.status = "none"
    /\ agg' = [name |-> a, status |-> "running", results |-> <<>>,
               base |-> ncalls, error |-> None, summary |-> <<>>]
    /\ UNCHANGED <<session, files, now, budget, pc, frame, result, raised,
                   ncalls, launches, writes, constructions, check, ui>>

\* An aggregate that calls its next test while the child of the one before
\* is still running.
AggLaunchNoWait ==
    /\ agg.status = "running"
    /\ ncalls - agg.base < Len(AggTests)
    /\ LET t == AggTests[ncalls - agg.base + 1][2]
           timestamp == strftime(now, "%Y%m%d_%H%M%S")
           output_file == app_output_dir
                          \o <<t.category, t.test_name \o "_" \o timestamp \o ".txt">>
       IN frame' = [command |-> t.command, category |-> t.category,
                    test_name |-> t.test_name, description |-> t.description,
                    timestamp |-> timestamp, output_file |-> output_file,
                    full_cmd |-> objection_base_cmd \o <<"run", t.command>>,
                    started |-> now, outcome |-> "running", returncode |-> 0,
                    stdout |-> "", stderr |-> "", write_failed |-> FALSE]
    /\ pc' = "child"
    /\ ncalls' = ncalls + 1
    /\ launches' = 1
    /\ result' = NoResult
    /\ raised' = None
    /\ UNCHANGED <<session, files, now, budget, writes, constructions, check,
                   agg, ui>>

\* The loop of an aggregate reaches func(): the next test of the list is
\* called, after the entry of the one before was appended.
AggLaunch ==
    /\ agg.status = "running"
    /\ ncalls - agg.base = Len(agg.results)
    /\ Len(agg.results) < Len(AggTests)
    /\ Execute(AggTests[Len(agg.results) + 1][2])

\* A loop that ends the run at the first test that does not succeed.
AggCollectStopsOnFailure ==
    /\ agg.status = "running"
    /\ pc \in {"returned", "raised"}
    /\ ncalls - agg.base = Len(agg.results) + 1
    /\ LET name == AggTests[Len(agg.results) + 1][1]
       IN IF pc = "returned"
          THEN agg' = [agg EXCEPT
                          !.results = Append(@, <<name, result.success, result.output_file>>),
                          !.status = IF result.success THEN @ ELSE "returned"]
          ELSE agg' = [agg EXCEPT !.status = "raised", !.error = raised]
    /\ UNCHANGED <<session, files, now, budget, pc, frame, result, raised,
                   ncalls, launches, writes, constructions, check, ui>>

\* A loop with no try block in any aggregate: what a test raises leaves the
\* run.
AggCollectNoCatch ==
    /\ agg.status = "running"
    /\ pc \in {"returned", "raised"}
    /\ ncalls - agg.base = Len(agg.results) + 1
    /\ LET name == AggTests[Len(agg.results) + 1][1]
       IN IF pc = "returned"
          THEN agg' = [agg EXCEPT
                          !.results = Append(@, <<name, result.success, result.output_file>>)]
          ELSE agg' = [agg EXCEPT !.status = "raised", !.error = raised]
    /\ UNCHANGED <<session, files, now, budget, pc, frame, result, raised,
                   ncalls, launches, writes, constructions, check, ui>>

\* func() has returned or raised: the loop appends (name, success,
\* output_file); run_basic_security_assessment catches what the test raised
\* and appends (name, False, "Error: <text>"), the two other aggregates let
\* it through to their caller.
AggCollect ==
    /\ agg.status = "running"
    /\ pc \in {"returned", "raised"}
    /\ ncalls - agg.base = Len(agg.results) + 1
    /\ LET name == AggTests[Len(agg.results) + 1][1]
       IN IF pc = "returned"
          THEN agg' = [agg EXCEPT
                          !.results = Append(@, <<name, result.success, result.output_file>>)]
          ELSE IF Aggregates[agg.name].catches
          THEN agg' = [agg EXCEPT
                          !.results = Append(@, <<name, FALSE, "Error: " \o raised[1]>>)]
          ELSE agg' = [agg EXCEPT !.status = "raised", !.error = raised]
    /\ UNCHANGED <<session, files, now, budget, pc, frame, result, raised,
                   ncalls, launches, writes, constructions, check, ui>>

\* The list is exhausted: return results.
AggReturn ==
    /\ agg.status = "running"
    /\ ncalls - agg.base = Len(agg.results)
    /\ Len(agg.results) = Len(AggTests)
    /\ agg' = [agg EXCEPT !.status = "returned"]
    /\ UNCHANGED <<session, files, now, budget, pc, frame, result, raised,
                   ncalls, launches, writes, constructions, check, ui>>

\* n spaces
RECURSIVE Spaces(_)
Spaces(n) == IF n <= 0 THEN "" ELSE " " \o Spaces(n - 1)

\* f"{name:<30}": name, padded on the right to 30 characters.
Pad30(name) == name \o Spaces(30 - Len(name))

\* f"{(successful/total*100):.1f}": the percentage rounded to tenths (no
\* total of 4, 6 or 10 puts a ratio on a rounding tie; ties go to even).
Rate1(successful, total) ==
    LET q == (successful * 1000) \div total
        r == (successful * 1000) % total
        tenths == IF 2 * r > total \/ (2 * r = total /\ q % 2 = 1) THEN q + 1 ELSE q
    IN ToString(tenths \div 10) \o "." \o ToString(tenths % 10)

\* A summary that counts every result as successful.
GetTestSummaryCountsAll(results) ==
    LET total_tests == Len(results)
    IN <<"", "+======================================+",
         "|            TEST SUMMARY              |",
         "+======================================+", "",
         "Total Tests Run: " \o ToString(total_tests),
         "Successful: " \o ToString(total_tests),
         "Failed: 0",
         "Success Rate: " \o Rate1(total_tests, total_tests) \o "%", "",
         "Output Directory: " \o PathStr(app_output_dir), "",
         "Test Results:">>
       \o [i \in 1..Len(results) |->
              "[+] " \o Pad30(results[i][1]) \o " -> " \o results[i][3]]

\* get_test_summary, lines 880-905, as the lines of the text it returns (the
\* box around the title is drawn here with +, = and |).
get_test_summary(results) ==
    LET total_tests == Len(results)
        successful_tests == Cardinality({i \in 1..Len(results) : results[i][2]})
        failed_tests == total_tests - successful_tests
    IN <<"", "+======================================+",
         "|            TEST SUMMARY              |",
         "+======================================+", "",
         "Total Tests Run: " \o ToString(total_tests),
         "Successful: " \o ToString(successful_tests),
         "Failed: " \o ToString(failed_tests),
         "Success Rate: " \o Rate1(successful_tests, total_tests) \o "%", "",
         "Output Directory: " \o PathStr(app_output_dir), "",
         "Test Results:">>
       \o [i \in 1..Len(results) |->
              (IF results[i][2] THEN "[+]" ELSE "[!]") \o " "
              \o Pad30(results[i][1]) \o " -> " \o results[i][3]]

\* The caller of an aggregate prints the summary of the list it got back
\* (main.py, lines 582-584, 615-617, 701-707).
Summary ==
    /\ agg.status = "returned"
    /\ agg.summary = <<>>
    /\ agg' = [agg EXCEPT !.summary = get_test_summary(agg.results)]
    /\ UNCHANGED <<session, files, now, budget, pc, frame, result, raised,
                   ncalls, launches, writes, constructions, check, ui>>

\* ------------------------------------------------------- spawn and kill
\* The return of run_spawn_app / run_kill_app when no package name is set
\* (lines 1254, 1265): nothing is launched and nothing is written.
NoPackage(test_name) ==
    /\ pc /= "child"
    /\ budget.calls > 0
    /\ budget' = [budget EXCEPT !.calls = @ - 1]
    /\ pc' = "returned"
    /\ result' = [success |-> FALSE, output_file |-> "No package name specified",
                  stdout |-> "", stderr |-> "Package name required"]
    /\ raised' = None
    /\ frame' = [NoFrame EXCEPT !.test_name = test_name, !.outcome = "no_package"]
    /\ launches' = 0
    /\ UNCHANGED <<session, files, now, ncalls, writes, constructions, check,
                   agg, ui>>

\* What run_spawn_app / run_kill_app pass to _execute_objection_command.
AppTest(verb) ==
    LET pkg == IF package_name = None THEN "None" ELSE package_name[1]
    IN [command |-> "android " \o verb \o " " \o pkg,
        category |-> "dynamic_manipulation", test_name |-> verb \o "_app",
        description |-> (IF verb = "spawn" THEN "Spawn" ELSE "Kill")
                        \o " application: " \o pkg]

\* A spawn that does not look at the package name.
RunSpawnAppUnguarded ==
    /\ ui.at /= "main"
    /\ Execute(AppTest("spawn"))

\* run_spawn_app, lines 1245-1254.
run_spawn_app ==
    /\ ui.at /= "main"
    /\ IF TruthyStr(package_name) THEN Execute(AppTest("spawn"))
       ELSE NoPackage("spawn_app")

\* run_kill_app, lines 1256-1265.
run_kill_app ==
    /\ ui.at /= "main"
    /\ IF TruthyStr(package_name) THEN Execute(AppTest("kill"))
       ELSE NoPackage("kill_app")

\* ------------------------------------------------------------------ menus
\* The probe outcomes explored at the entry to the suite.
GateVersionProbes == {Completed(0, <<>>), LaunchFault}
GateTargetProbes == {Completed(0, PidofLine), Completed(0, PsRow), Completed(0, <<>>)}
Answers == {"y", "n", ""}

\* main.py, lines 524-537, after the tester is built: objection must be
\* available; if the target is truthy it is verified and, when it is not
\* running, the user is asked whether to continue; then the menu loop is
\* entered, or control goes back to the main menu.  o1 and o2 are what comes
\* of the two probes, ans what the user types if asked.
Gate(o1, o2, ans) ==
    /\ ui.at = "entry"
    /\ pc = "idle"
    /\ LET a == check_objection_available(o1)
           verifies == a.ok /\ (TruthyStr(package_name) \/ TruthyInt(process_id))
           v == verify_target_running(o2)
           asked == verifies /\ ~v.ok
           enters == a.ok /\ (asked => ans = "y")
       IN /\ ui' = [ui EXCEPT !.at = IF enters THEN "menu" ELSE "main",
                              !.available = a.ok,
                              !.verified = verifies,
                              !.running = verifies /\ v.ok,
                              !.answer = IF asked THEN ans ELSE ""]
          /\ check' = IF verifies
                      THEN [name |-> "verify_target_running", ok |-> v.ok,
                            message |-> v.message, raised |-> None,
                            cmd |-> VerifyCmd, probe |-> o2,
                            reports |-> Cardinality(DOMAIN files)]
                      ELSE [name |-> "check_objection_available", ok |-> a.ok,
                            message |-> a.message, raised |-> None,
                            cmd |-> ObjectionCmd, probe |-> o1,
                            reports |-> Cardinality(DOMAIN files)]
    /\ UNCHANGED <<session, files, now, budget, pc, frame, result, raised,
                   ncalls, launches, writes, constructions, agg>>

\* A program that uses the module's own menus calls
\* handle_main_objection_menu on the tester it built.
handle_main_objection_menu ==
    /\ ui.at = "entry"
    /\ pc = "idle"
    /\ ui' = [ui EXCEPT !.at = "module"]
    /\ UNCHANGED <<session, files, now, budget, pc, frame, result, raised,
                   ncalls, launches, writes, constructions, check, agg>>

\* A single-test option of a menu calls its test wrapper (main.py lines
\* 569-580, 602-613; module lines 1294-1332, 1350-1393).
MenuTest(t) ==
    /\ ui.at \in {"menu", "module"}
    /\ pc = "returned" => (ui.call = ncalls \/ frame.outcome = "no_package")
    /\ Execute(t)

\* The wrapper has returned and the option prints its line: the menus of
\* main.py print "completed" or "failed" by the success flag (line 570), the
\* handlers of the module print the check mark and "completed" whatever the
\* flag (line 1298); both print the output file.
MenuShow ==
    /\ ui.at \in {"menu", "module"}
    /\ pc = "returned"
    /\ frame.outcome /= "no_package"
    /\ ui.call /= ncalls
    /\ ui' = [ui EXCEPT !.call = ncalls,
                        !.by = IF ui.at = "menu" THEN "main.py" ELSE "objection_module.py",
                        !.indicator = IF ui.at = "menu" THEN result.success ELSE TRUE,
                        !.path = result.output_file]
    /\ UNCHANGED <<session, files, now, budget, pc, frame, result, raised,
                   ncalls, launches, writes, constructions, check, agg>>

\* ------------------------------------------------------------ report text
\* What a reader of a report file finds in it.
ReturnCodeLine(c) == c[10]
HasStdout(c) == Len(c) >= 13 /\ c[13] = "STDOUT:"
StdoutOf(c) == IF HasStdout(c) THEN c[15] ELSE ""
StderrAt(c) == IF HasStdout(c) THEN 17 ELSE 13
HasStderr(c) == Len(c) >= StderrAt(c) /\ c[StderrAt(c)] = "STDERR:"
StderrOf(c) == IF HasStderr(c) THEN c[StderrAt(c) + 2] ELSE ""

ByCall(n) == {i \in DOMAIN writes : writes[i].call = n}
WriteErrors(path) == {OSErrorText(w, path) : w \in WriteOutcomes \ {"ok"}}

\* ------------------------------------------------------------------ claims

\* C1: whenever a call of _execute_objection_command has returned, whatever
\* the child did, the call has written exactly one report, at the path it
\* returns, and that report is on disk.
C1_RecordOnReturn ==
    pc = "returned" =>
        /\ result.output_file = PathStr(frame.output_file)
        /\ frame.output_file \in DOMAIN files
        /\ Cardinality(ByCall(ncalls)) = 1
        /\ \A i \in ByCall(ncalls) :
              /\ writes[i].path = frame.output_file
              /\ files[frame.output_file] = writes[i].content
              /\ writes[i].content[8] = "Command: " \o frame.command

\* A call that timed out has returned and left its record.
C1_Witness ==
    /\ pc = "returned"
    /\ frame.outcome = "timeout"
    /\ frame.output_file \in DOMAIN files

\* C2: the returned success flag is true exactly when the child ran to
\* completion and exited with return code 0.
C2_SuccessIffExitZero ==
    pc = "returned" =>
        (result.success <=> (frame.outcome = "completed" /\ frame.returncode = 0))

\* C3: after a timeout the call returns success=false, empty stdout and the
\* synthesized timeout text as stderr, and the record on disk carries return
\* code -1 and that stderr text.
C3_TimeoutResult ==
    (pc = "returned" /\ frame.outcome = "timeout") =>
        /\ now - frame.started >= TimeoutSecs * TicksPerSec
        /\ result = [success |-> FALSE, output_file |-> PathStr(frame.output_file),
                     stdout |-> "", stderr |-> TimeoutMsg]
        /\ result.stderr /= ""
        /\ ReturnCodeLine(files[frame.output_file]) = "Return Code: -1"
        /\ StderrOf(files[frame.output_file]) = result.stderr
        /\ StdoutOf(files[frame.output_file]) = ""

\* A timed-out call has returned.
C3_Witness ==
    /\ pc = "returned"
    /\ frame.outcome = "timeout"
    /\ result.stderr = TimeoutMsg
    /\ ~result.success

\* C4 as stated: when the launch of the child faults the call does not raise,
\* it returns the failure tuple.
C4_FaultNeverRaises ==
    frame.outcome = "fault" =>
        /\ pc = "returned"
        /\ ~result.success
        /\ result.stdout = ""

\* C4 as amended: when the launch of the child faults, the launch fault does
\* not leave the call.  The call writes a record with return code -1 and, if
\* that write succeeds, returns success=false, empty stdout and a stderr
\* made from the fault text; the only exception that leaves the call is the
\* error of that write.
C4_FaultSwallowed ==
    frame.outcome = "fault" =>
        /\ pc \in {"returned", "raised"}
        /\ pc = "returned" =>
              /\ ~result.success
              /\ result.stdout = ""
              /\ result.stderr \in {ErrorPrefix \o e : e \in FaultTexts}
              /\ result.output_file = PathStr(frame.output_file)
              /\ ReturnCodeLine(files[frame.output_file]) = "Return Code: -1"
              /\ StderrOf(files[frame.output_file]) = result.stderr
        /\ pc = "raised" =>
              /\ frame.write_failed
              /\ raised \in {Some(x) : x \in WriteErrors(frame.output_file)}

\* A launch fault has been turned into a returned failure.
C4_Witness ==
    /\ pc = "returned"
    /\ frame.outcome = "fault"
    /\ result.stderr = ErrorPrefix \o "[Errno 2] No such file or directory: 'objection'"

\* C5: for a session with a target, the command executed is the tool, then
\* -S <device_id> iff a device identifier is set, then -g <app_id_or_pid>,
\* then run, then the logical command.
C5_FullCommand ==
    (pc /= "idle" /\ (package_name /= None \/ process_id /= None)) =>
        frame.full_cmd =
            <<"objection">>
            \o (IF device_id /= None THEN <<"-S", device_id[1]>> ELSE <<>>)
            \o <<"-g", IF package_name /= None THEN package_name[1]
                       ELSE PyStr(process_id)>>
            \o <<"run", frame.command>>

\* C6: the report of the call that has returned is
\* <session_root>/<category>/<test_name>_<timestamp>.txt, and the timestamp
\* in that name is the value of the Timestamp: field of the file's header,
\* whatever the outcome of the child.
C6_NameMatchesHeader ==
    pc = "returned" =>
        /\ frame.output_file =
              app_output_dir
              \o <<frame.category, frame.test_name \o "_" \o frame.timestamp \o ".txt">>
        /\ files[frame.output_file][5] = "Timestamp: " \o frame.timestamp

\* A call has returned in a later second than the one it was stamped in.
C6_Witness ==
    /\ pc = "returned"
    /\ frame.outcome = "completed"
    /\ strftime(now, "%Y%m%d_%H%M%S") /= frame.timestamp
    /\ files[frame.output_file][5] = "Timestamp: " \o frame.timestamp

\* C7: every invocation that persists its record creates a new file, no file
\* of an earlier invocation is written again, and when every invocation made
\* has persisted its record there are as many report files as invocations.
C7_NewFilePerCall ==
    /\ \A i, j \in DOMAIN writes : i /= j => writes[i].path /= writes[j].path
    /\ (pc /= "child" /\ Len(writes) = ncalls) => Cardinality(DOMAIN files) = ncalls

\* The Timestamp: lines of the seconds the clock can reach, in the sortable
\* format YYYYMMDD_HHMMSS.
ClockSecs ==
    Secs(StartClock) .. (Secs(StartClock) + MaxCalls * TimeoutSecs + MaxTicks)
StampLine ==
    [n \in ClockSecs |->
        "Timestamp: 197001" \o D2(1 + n \div 86400) \o "_"
        \o D2((n % 86400) \div 3600) \o D2((n \div 60) % 60) \o D2(n % 60)]

\* The second a record's header names, -1 if the line is no such stamp.
StampOf(c) ==
    IF \E n \in ClockSecs : StampLine[n] = c[5]
    THEN CHOOSE n \in ClockSecs : StampLine[n] = c[5]
    ELSE -1

\* C8: records are persisted in the order of the calls, and the timestamps
\* of successive records are sortable stamps that never decrease.
C8_CallOrder ==
    \A i, j \in DOMAIN writes :
        i < j =>
            /\ writes[i].call < writes[j].call
            /\ StampOf(writes[i].content) >= 0
            /\ StampOf(writes[i].content) <= StampOf(writes[j].content)

\* Two records, the later one stamped in a later second, on the next day.
C8_Witness ==
    /\ Len(writes) = 2
    /\ StampOf(writes[1].content) < StampOf(writes[2].content)
    /\ StampOf(writes[1].content) = Secs(StartClock)

\* C9: whenever a write of the report has failed, the I/O error leaves the
\* call: the call does not return a result.
C9_WriteErrorPropagates ==
    frame.write_failed => pc = "raised"

\* The failure records: timeouts, exceptions, and runs with a nonzero code.
IsFailure(i) ==
    \/ writes[i].kind \in {"timeout", "fault"}
    \/ ReturnCodeLine(writes[i].content) /= "Return Code: 0"

\* C10 as stated: the recorded return code tells the kind of a failure, so
\* two failure records with the same return code are of the same kind.
C10_CodeTellsKind ==
    \A i, j \in DOMAIN writes :
        (IsFailure(i) /\ IsFailure(j)
         /\ ReturnCodeLine(writes[i].content) = ReturnCodeLine(writes[j].content))
        => writes[i].kind = writes[j].kind

\* C10 as amended: a timeout and an exception both record the sentinel -1;
\* what tells them apart is the recorded stderr, the timeout text for a
\* timeout and "Error executing command: <exception>" for an exception.
C10_SentinelShared ==
    \A i \in DOMAIN writes :
        LET c == writes[i].content
            errors == {ErrorPrefix \o e : e \in FaultTexts \cup WriteErrors(writes[i].path)}
        IN /\ writes[i].kind = "timeout" =>
                 /\ ReturnCodeLine(c) = "Return Code: -1"
                 /\ StderrOf(c) = TimeoutMsg
           /\ writes[i].kind = "fault" =>
                 /\ ReturnCodeLine(c) = "Return Code: -1"
                 /\ StderrOf(c) \in errors
           /\ TimeoutMsg \notin errors

\* A timeout record and an exception record with the same return code.
C10_Witness ==
    /\ Len(writes) = 2
    /\ writes[1].kind = "timeout"
    /\ writes[2].kind = "fault"
    /\ ReturnCodeLine(writes[1].content) = ReturnCodeLine(writes[2].content)

\* C11: the session root is named after the application identifier when one
\* is given, else pid_<process id> when a process identifier is given, else
\* unknown_app.
C11_RootName ==
    app_output_dir =
        OutputDir
        \o << IF package_name /= None THEN package_name[1]
              ELSE IF process_id /= None THEN "pid_" \o ToString(process_id[1])
              ELSE "unknown_app" >>

\* C12: in every state of a session the nine category directories exist
\* under the session root, used or not.
C12_CategoryDirs ==
    /\ \A c \in {"security_bypasses", "data_exploration", "runtime_analysis",
                  "network_monitoring", "application_info",
                  "dynamic_manipulation", "advanced_testing", "quick_tests",
                  "session_logs"} :
          app_output_dir \o <<c>> \in dirs
    /\ Cardinality({d \in dirs : SubSeq(d, 1, Len(d) - 1) = app_output_dir}) = 9

\* A test has run and returned, and a category no test has used is there.
C12_Witness ==
    /\ pc = "returned"
    /\ writes /= <<>>
    /\ app_output_dir \o <<"session_logs">> \in dirs
    /\ \A p \in DOMAIN files : p[Len(p) - 1] /= "session_logs"

\* C13: a further run of the constructor for the same target raises nothing,
\* leaves the directory tree and the session root as they were, and leaves
\* every report file on disk with the content it had.
C13_ReinitIdempotent ==
    [][Len(constructions') > Len(constructions) =>
          /\ raised' = raised
          /\ dirs' = dirs
          /\ app_output_dir' = app_output_dir
          /\ objection_base_cmd' = objection_base_cmd
          /\ files' = files]_vars

\* The constructor has run a second time and found a report, which is still
\* on disk.
C13_Witness ==
    /\ Len(constructions) = 2
    /\ constructions[2] /= {}
    /\ constructions[2] \subseteq DOMAIN files
    /\ \A p \in constructions[2] : Len(files[p]) > 12

\* The lines of a report that read l.
LinesOf(c, l) == {i \in DOMAIN c : c[i] = l}

\* The closing lines "Test completed at: YYYY-MM-DD HH:MM:SS" of the seconds
\* the clock can reach.
CompletedLines ==
    { "Test completed at: 1970-01-" \o D2(1 + n \div 86400) \o " "
      \o D2((n % 86400) \div 3600) \o ":" \o D2((n \div 60) % 60) \o ":" \o D2(n % 60)
      : n \in ClockSecs }

\* C14: the report of a call that has returned has the labeled STDOUT section
\* iff the stdout of its record is non-empty, the labeled STDERR section iff
\* the stderr is non-empty, and always the header and the closing banner.
C14_SectionsIffNonEmpty ==
    pc = "returned" =>
        LET c == files[frame.output_file]
        IN /\ (LinesOf(c, "STDOUT:") /= {}) <=> (result.stdout /= "")
           /\ (LinesOf(c, "STDERR:") /= {}) <=> (result.stderr /= "")
           /\ \A i \in LinesOf(c, "STDOUT:") : c[i + 1] = Dash40 /\ c[i + 2] = result.stdout
           /\ \A i \in LinesOf(c, "STDERR:") : c[i + 1] = Dash40 /\ c[i + 2] = result.stderr
           /\ SubSeq(c, 1, 4) = <<"", Eq80, "OBJECTION TESTING OUTPUT", Eq80>>
           /\ c[11] = Eq80
           /\ c[Len(c) - 2] = Eq80
           /\ c[Len(c) - 1] \in CompletedLines
           /\ c[Len(c)] = Eq80

\* The report of a child that wrote to stdout only: a STDOUT section and no
\* STDERR section.
C14_Witness ==
    /\ pc = "returned"
    /\ result.stdout /= ""
    /\ result.stderr = ""
    /\ LinesOf(files[frame.output_file], "STDOUT:") /= {}
    /\ LinesOf(files[frame.output_file], "STDERR:") = {}

\* C15: the Target: line of every report shows the application identifier
\* when one is set, "PID <n>" when only a process identifier is set, and
\* "Unknown" when neither is set.
C15_TargetLine ==
    \A i \in DOMAIN writes :
        writes[i].content[6] =
            "Target: "
            \o (IF package_name /= None THEN package_name[1]
                ELSE IF process_id /= None THEN "PID " \o ToString(process_id[1])
                ELSE "Unknown")

ReadinessChecks ==
    {"check_objection_available", "check_device_connection",
     "check_frida_server_status", "verify_target_running"}

\* C17: whatever came of its probe (an exit code, a timeout, a missing
\* executable), a readiness check has raised nothing and has handed back a
\* boolean and a message; a probe that did not complete gives false.
C17_ChecksNeverRaise ==
    check.name \in ReadinessChecks =>
        /\ check.raised = None
        /\ check.ok \in BOOLEAN
        /\ check.message /= ""
        /\ check.probe.kind \in {"timeout", "fault"} => ~check.ok

\* The objection executable is missing and the check says so.
C17_Witness ==
    /\ check.name = "check_objection_available"
    /\ check.probe.kind = "fault"
    /\ ~check.ok
    /\ check.message
          = "Error checking Objection: [Errno 2] No such file or directory: 'objection'"

\* C18: a step in which a readiness check or the system diagnostics runs
\* writes no report and leaves the files and directories under the session
\* root as they were.
C18_ChecksNotPersisted ==
    [][check' /= check =>
          /\ files' = files
          /\ writes' = writes
          /\ dirs' = dirs]_vars

\* The diagnostics have run with a report on disk, and the disk holds what
\* it held.
C18_Witness ==
    /\ check.name = "run_system_diagnostics"
    /\ check.reports > 0
    /\ Cardinality(DOMAIN files) = check.reports
    /\ Len(writes) = check.reports

\* The ps -p <pid> probe of a process-identifier target.
PsCmd ==
    <<"adb">> \o (IF device_id /= None THEN <<"-s", device_id[1]>> ELSE <<>>)
    \o <<"shell", "ps", "-p", ToString(process_id[1])>>

\* C19 as stated: for a process-identifier target whose ps -p <pid> probe
\* has completed, verify_target_running gives running=true if the pid string
\* appears in the output, and running=false with a message if the output is
\* empty.
C19_PidInOutput ==
    (/\ check.name = "verify_target_running"
     /\ package_name = None /\ process_id /= None
     /\ check.cmd /= <<>> /\ check.probe.kind = "completed") =>
        /\ check.cmd = PsCmd
        /\ Contains(check.probe.stdout, Digits(process_id[1])) => check.ok
        /\ check.probe.stdout = <<>> => (~check.ok /\ check.message /= "")

\* C19 as amended: for a process-identifier target, verify_target_running
\* gives running=true exactly when the ps -p <pid> probe exits with return
\* code 0 and the pid string appears in its output; in every other case, an
\* empty output among them, it gives running=false with a message.
C19_PidRunningIffExitZero ==
    (/\ check.name = "verify_target_running"
     /\ package_name = None /\ process_id /= None) =>
        /\ check.cmd \in {<<>>, PsCmd}
        /\ check.ok <=> /\ check.cmd = PsCmd
                        /\ check.probe.kind = "completed"
                        /\ check.probe.returncode = 0
                        /\ Contains(check.probe.stdout, Digits(process_id[1]))
        /\ check.ok => check.message = "Process " \o ToString(process_id[1]) \o " is running"
        /\ ~check.ok => check.message /= ""
        /\ check.raised = None

\* The probe of process 1234 has printed its row and the process is reported
\* running; after an empty output it is reported not running.
C19_Witness ==
    /\ check.name = "verify_target_running"
    /\ package_name = None
    /\ process_id = Some(1234)
    /\ check.probe = Completed(0, PsRow)
    /\ check.ok

\* C20: in every session exactly one of the application identifier and the
\* process identifier is set.
C20_ExactlyOneTarget ==
    (package_name = None) /= (process_id = None)

\* C21: no step of a session (a test started or ended, a readiness check,
\* the diagnostics, the constructor run again on the same target) changes the
\* application identifier, the process identifier, the device identifier,
\* the session root directory or the base command.
C21_TargetImmutable ==
    [][<<package_name, process_id, device_id, app_output_dir, objection_base_cmd>>'
          = <<package_name, process_id, device_id, app_output_dir,
              objection_base_cmd>>]_vars

\* A test has run on top of the base command and a readiness check has been
\* made, and the base command is the one the constructor built.
C21_Witness ==
    /\ pc = "returned"
    /\ frame.full_cmd = objection_base_cmd \o <<"run", frame.command>>
    /\ check.name \in ReadinessChecks
    /\ objection_base_cmd = _build_base_command(package_name, process_id, device_id)

\* C22: a call of _execute_objection_command that has started, returned or
\* raised has launched the external command once, whatever the child came to
\* (exit code, timeout, fault); before the first call nothing was launched.
C22_SingleLaunch ==
    /\ pc = "idle" => launches = 0
    /\ pc \in {"child", "returned", "raised"} => launches = 1

\* A call whose child was cut off at the bound has returned after one launch.
C22_Witness ==
    /\ pc = "returned"
    /\ frame.outcome = "timeout"
    /\ launches = 1

\* C26: check_device_connection hands back true exactly when adb devices
\* exited with code 0, some line of its output holds a tab followed by
\* "device" and the session's device identifier, if one is set, is among the
\* identifiers parsed from those lines; when it hands back false it gives a
\* message.
C26_DeviceConnection ==
    check.name = "check_device_connection" =>
        LET o == check.probe
            lines == Split(o.stdout, "\n")
        IN /\ check.ok <=>
                 /\ o.kind = "completed"
                 /\ o.returncode = 0
                 /\ \E i \in 1..Len(lines) : Contains(lines[i], TabDevice)
                 /\ device_id /= None
                       => \E i \in 1..Len(lines) :
                             /\ Contains(lines[i], TabDevice)
                             /\ Join(Split(lines[i], "\t")[1]) = device_id[1]
           /\ ~check.ok => check.message /= ""

\* adb lists a device, but not the one the session names: the check fails
\* and says which devices are attached.
C26_Witness ==
    /\ check.name = "check_device_connection"
    /\ device_id = Some("emulator-5554")
    /\ check.probe = Completed(0, OtherDevice)
    /\ ~check.ok
    /\ check.message
          = "Specified device emulator-5554 not found. Available devices: ['R58M']"

\* C23: the summary printed for the list an aggregate returned gives the
\* number of results as total, the number of results whose flag is true as
\* successful, their difference as failed, successful/total as a percentage
\* rounded to one decimal, and one line per result, in order, that ends with
\* the result's output path.
C23_Summary ==
    agg.summary /= <<>> =>
        LET rs == agg.results
            t == Len(rs)
            ok == Cardinality({i \in 1..t : rs[i][2]})
            lines == agg.summary
        IN /\ t > 0
           /\ lines[6] = "Total Tests Run: " \o ToString(t)
           /\ lines[7] = "Successful: " \o ToString(ok)
           /\ lines[8] = "Failed: " \o ToString(t - ok)
           /\ \E v \in 0..1000 :
                 /\ lines[9] = "Success Rate: " \o ToString(v \div 10) \o "."
                                 \o ToString(v % 10) \o "%"
                 /\ 2 * (v * t - 1000 * ok) <= t
                 /\ 2 * (1000 * ok - v * t) <= t
           /\ Len(lines) = 13 + t
           /\ \A i \in 1..t :
                 \E mark \in {"[+]", "[!]"} :
                    lines[13 + i] = mark \o " " \o rs[i][1]
                                     \o Spaces(30 - Len(rs[i][1]))
                                     \o " -> " \o rs[i][3]

\* The four bypasses ran, three succeeded, and the summary says 4, 3, 1 and
\* 75.0%.
C23_Witness ==
    /\ agg.name = "run_all_security_bypasses"
    /\ Len(agg.summary) = 17
    /\ agg.summary[6] = "Total Tests Run: 4"
    /\ agg.summary[7] = "Successful: 3"
    /\ agg.summary[8] = "Failed: 1"
    /\ agg.summary[9] = "Success Rate: 75.0%"

\* The record of call n is on disk at the path p.
Persisted(n, p) ==
    /\ p \in DOMAIN files
    /\ Cardinality(ByCall(n)) = 1
    /\ \A i \in ByCall(n) : writes[i].path = p /\ files[p] = writes[i].content

\* C25 as stated: a command is launched only when no child is in flight
\* and, within an aggregate run, the command before it has ended (completed,
\* cut off at the bound or not launched) and its record is on disk.
C25_SerialPersisted ==
    [][ncalls' = ncalls + 1 =>
          /\ pc /= "child"
          /\ (agg.status = "running" /\ ncalls > agg.base) =>
                /\ frame.outcome \in {"completed", "timeout", "fault"}
                /\ Persisted(ncalls, frame.output_file)]_vars

\* C25, amended: a command is launched only when no child is in flight and,
\* within an aggregate run, the command before it has ended and either its
\* record is on disk or the write of its record failed and the error was
\* raised to the aggregate (which run_basic_security_assessment catches).
C25_Serial ==
    [][ncalls' = ncalls + 1 =>
          /\ pc /= "child"
          /\ (agg.status = "running" /\ ncalls > agg.base) =>
                /\ frame.outcome \in {"completed", "timeout", "fault"}
                /\ \/ pc = "returned" /\ Persisted(ncalls, frame.output_file)
                   \/ /\ pc = "raised"
                      /\ frame.write_failed
                      /\ raised[1] \in WriteErrors(frame.output_file)
                      /\ ByCall(ncalls) = {}
                      /\ Aggregates[agg.name].catches]_vars

\* The second test of an aggregate is in flight and the record of the first,
\* which timed out, is on disk.
C25_Witness ==
    /\ agg.status = "running"
    /\ ncalls = agg.base + 2
    /\ pc = "child"
    /\ \E i \in ByCall(agg.base + 1) : writes[i].kind = "timeout"

\* The entries of the run so far carry the names of list l in its order, and
\* every record written by the run is that of the command at its place in l.
InListOrder(l) ==
    /\ Len(agg.results) <= Len(l)
    /\ \A i \in 1..Len(agg.results) : agg.results[i][1] = l[i][1]
    /\ \A j \in DOMAIN writes :
          writes[j].call > agg.base =>
              /\ writes[j].call - agg.base <= Len(l)
              /\ writes[j].content[8]
                    = "Command: " \o l[writes[j].call - agg.base][2].command

\* C27 as stated: run_all_security_bypasses runs the four bypasses in the
\* order root detection, SSL pinning, anti-debugging, biometric; no bypass
\* that failed, timed out or faulted stops the run, and the list returned has
\* four (name, success, output file) entries in that order.
C27_NeverStops ==
    agg.name = "run_all_security_bypasses" =>
        /\ InListOrder(bypasses)
        /\ agg.status /= "raised"
        /\ agg.status = "returned" => Len(agg.results) = 4

\* C27, amended: the four bypasses run in that order; a bypass that failed,
\* timed out or faulted and whose record was written does not stop the run,
\* and a list that is returned has four (name, success, output file) entries
\* in that order, each with the path of the test's record; the run stops
\* early only when the write of a record in an except block fails, and then
\* it raises that I/O error and returns no list.
C27_BypassOrder ==
    agg.name = "run_all_security_bypasses" =>
        /\ InListOrder(bypasses)
        /\ \A i \in 1..Len(agg.results) :
              /\ agg.results[i][2] \in BOOLEAN
              /\ \E j \in ByCall(agg.base + i) :
                    agg.results[i][3] = PathStr(writes[j].path)
        /\ agg.status = "returned" => Len(agg.results) = 4
        /\ agg.status = "raised" =>
              /\ pc = "raised"
              /\ frame.write_failed
              /\ frame.outcome \in {"timeout", "fault"}
              /\ agg.error = raised
              /\ raised[1] \in WriteErrors(frame.output_file)

\* The first bypass failed, the second timed out, the third could not be
\* launched, and all four are in the list that was returned.
C27_Witness ==
    /\ agg.name = "run_all_security_bypasses"
    /\ agg.status = "returned"
    /\ Len(agg.results) = 4
    /\ ~agg.results[1][2]
    /\ \E i \in ByCall(agg.base + 1) : writes[i].kind = "completed"
    /\ \E i \in ByCall(agg.base + 2) : writes[i].kind = "timeout"
    /\ \E i \in ByCall(agg.base + 3) : writes[i].kind = "fault"
    /\ agg.results[4][2]

\* C28: run_basic_security_assessment never raises and returns six results
\* in the order of its list; a test that raised is in the list as failed,
\* with "Error: " and the text of the exception in place of the path, and
\* the tests after it have run.
C28_AlwaysSix ==
    agg.name = "run_basic_security_assessment" =>
        /\ InListOrder(basic_tests)
        /\ agg.status /= "raised"
        /\ agg.status = "returned" => Len(agg.results) = 6
        /\ \A i \in 1..Len(agg.results) :
              ByCall(agg.base + i) = {} => ~agg.results[i][2]
        /\ (pc = "raised" /\ ncalls - agg.base = Len(agg.results)) =>
              agg.results[Len(agg.results)]
                 = <<basic_tests[Len(agg.results)][1], FALSE, "Error: " \o raised[1]>>

\* The record of the second test could not be written, its entry carries the
\* error, and the assessment went on to return six results.
C28_Witness ==
    /\ agg.name = "run_basic_security_assessment"
    /\ agg.status = "returned"
    /\ Len(agg.results) = 6
    /\ ByCall(agg.base + 2) = {}
    /\ agg.results[2][1] = "Root Status"
    /\ ~agg.results[2][2]
    /\ \E j \in ByCall(agg.base + 6) : agg.results[6][3] = PathStr(writes[j].path)

\* C24 as stated: when a menu has printed its line for a single test, the
\* indicator it showed is the success indicator exactly when the success
\* flag the invocation returned is true, and the path it showed is the
\* invocation's report file.
C24_IndicatorIffSuccess ==
    (ui.call > 0 /\ ui.call = ncalls /\ pc = "returned") =>
        /\ ui.indicator <=> result.success
        /\ ui.path = PathStr(frame.output_file)

\* C29: a step that calls run_spawn_app or run_kill_app on a session with no
\* package name hands back the failure tuple, launches nothing and leaves the
\* files, the written records and the directories as they were; on a session
\* with a package name it starts one invocation in dynamic_manipulation,
\* which leaves one record there when it returns.
C29_SpawnKill ==
    /\ [][(pc /= "child" /\ frame' /= frame
              /\ frame'.test_name \in {"spawn_app", "kill_app"}) =>
            IF package_name = None
            THEN /\ result' = [success |-> FALSE,
                               output_file |-> "No package name specified",
                               stdout |-> "", stderr |-> "Package name required"]
                 /\ pc' = "returned"
                 /\ launches' = 0
                 /\ <<files, writes, dirs, ncalls>>' = <<files, writes, dirs, ncalls>>
            ELSE /\ pc' = "child"
                 /\ launches' = 1
                 /\ ncalls' = ncalls + 1
                 /\ frame'.category = "dynamic_manipulation"
                 /\ frame'.command \in {"android spawn " \o package_name[1],
                                        "android kill " \o package_name[1]}]_vars
    /\ [](( pc = "returned" /\ frame.test_name \in {"spawn_app", "kill_app"}
              /\ package_name /= None) =>
            /\ launches = 1
            /\ Cardinality(ByCall(ncalls)) = 1
            /\ \A i \in ByCall(ncalls) :
                  /\ writes[i].path = frame.output_file
                  /\ writes[i].path
                        = app_output_dir \o <<"dynamic_manipulation",
                                              frame.test_name \o "_"
                                                 \o frame.timestamp \o ".txt">>
                  /\ writes[i].path \in DOMAIN files)

\* run_kill_app was called on a process-identifier session: it handed back
\* the failure tuple and the disk is empty.
C29_Witness ==
    /\ package_name = None
    /\ process_id = Some(1234)
    /\ frame.test_name = "kill_app"
    /\ pc = "returned"
    /\ result.stderr = "Package name required"
    /\ launches = 0
    /\ DOMAIN files = {}

\* C30 as stated: the Objection menu of main.py is entered only after
\* check_objection_available returned true and verify_target_running
\* returned true or the user answered y; otherwise control is back at the
\* main menu and no test command was executed.
C30_MenuGated ==
    /\ ui.at = "menu" =>
          /\ ui.available
          /\ ui.running \/ ui.answer = "y"
    /\ ui.at = "main" => ncalls = 0

Next ==
    \/ \E d \in {1, TicksPerSec} : Tick(d)
    \/ \E t \in Tests : Execute(t)
    \/ \E r \in ChildResults : ChildExit(r)
    \/ \E w \in WriteOutcomes : ChildTimeout(w)
    \/ \E e \in FaultTexts, w \in WriteOutcomes : ChildFault(e, w)
    \/ \E r \in ChildResults, w1, w2 \in WriteOutcomes : ChildExitWriteFails(r, w1, w2)

Spec == Init /\ [][Next]_vars

SpecTargets == InitTargets /\ [][Next]_vars

\* A session on any target in which tests run to completion, the constructor
\* is run again and readiness checks are made.
InitSession ==
    /\ \E pkg \in PackageNames, pid \in ProcessIds, dev \in DeviceIds :
          Construct(pkg, pid, dev)
    /\ budget = [calls |-> MaxTargetCalls, faults |-> 0, ticks |-> 0,
                 checks |-> MaxChecks]

NextSession ==
    \/ \E t \in Tests : Execute(t)
    \/ \E r \in ChildResults : ChildExit(r)
    \/ Reinit
    \/ \E o \in VersionProbes :
          ReadinessCheck("check_objection_available", ObjectionCmd, o,
                         check_objection_available(o))
    \/ \E o \in DevicesProbes :
          ReadinessCheck("check_device_connection", DevicesCmd, o,
                         check_device_connection(o))
    \/ \E o \in FridaProbes :
          ReadinessCheck("check_frida_server_status", FridaCmd, o,
                         check_frida_server_status(o))
    \/ \E o \in TargetProbes :
          ReadinessCheck("verify_target_running", VerifyCmd,
                         IF VerifyCmd = <<>> THEN NoProbe ELSE o,
                         verify_target_running(o))
    \/ \E o1 \in {Completed(0, <<>>), LaunchFault},
          o2 \in {Completed(0, OneDevice), Completed(1, <<>>)},
          o3 \in {Completed(0, FridaListing), TimedOut},
          o4 \in {Completed(0, PsRow), Completed(0, <<>>)} :
          ReadinessCheck("run_system_diagnostics", <<>>, NoProbe,
                         run_system_diagnostics(o1, o2, o3, o4))

SpecSession == InitSession /\ [][NextSession]_vars

\* A session in which one aggregate is run from start to end; each of its
\* tests exits with code 0 or 1, is cut off at the bound or cannot be
\* launched, and the writes of up to MaxFaultyCalls of them fail (the record
\* of a timeout cannot be opened, the report of a completed child cannot be
\* written).
InitAggregate ==
    /\ \E tg \in SessionTargets : Construct(tg[1], tg[2], tg[3])
    /\ budget = [calls |-> Len(basic_tests), faults |-> MaxFaultyCalls, ticks |-> 0]

NextAggregate ==
    \/ \E a \in AggregateNames : AggStart(a)
    \/ AggLaunch
    \/ \E r \in {c \in ChildResults : c.returncode >= 0} : ChildExit(r)
    \/ \E w \in {"ok", "open_fails"} : ChildTimeout(w)
    \/ \E e \in FaultTexts : ChildFault(e, "ok")
    \/ \E r \in {c \in ChildResults : c.returncode = 0} :
          ChildExitWriteFails(r, "write_fails", "ok")
    \/ AggCollect
    \/ AggReturn
    \/ Summary

SpecAggregate == InitAggregate /\ [][NextAggregate]_vars

\* The targets the selection of main.py (lines 494-511) hands to the
\* constructor: a non-empty package name, or the integer typed as PID.
MainTargets ==
    {<<pkg, None>> : pkg \in PackageNames \ {None}}
        \cup {<<None, pid>> : pid \in ProcessIds \ {None}}

\* The Objection suite of main.py is entered, or the module's own menus are
\* used, on a tester built for one of MainTargets; single tests are run from
\* the menus and shown, and the application is spawned or killed.
InitSuite ==
    /\ \E tg \in MainTargets, dev \in DeviceIds : Construct(tg[1], tg[2], dev)
    /\ budget = [calls |-> MaxTargetCalls, faults |-> 0, ticks |-> 0]

NextSuite ==
    \/ \E o1 \in GateVersionProbes, o2 \in GateTargetProbes, ans \in Answers :
          Gate(o1, o2, ans)
    \/ handle_main_objection_menu
    \/ \E t \in Tests : MenuTest(t)
    \/ \E r \in ChildResults : ChildExit(r)
    \/ ChildTimeout("ok")
    \/ \E e \in FaultTexts : ChildFault(e, "ok")
    \/ MenuShow
    \/ run_spawn_app
    \/ run_kill_app

SpecSuite == InitSuite /\ [][NextSuite]_vars
====
